---- MODULE Spec2Model ----
(***************************************************************************)
(* Model of P1/prime_threads.cpp: trial-division prime search split over   *)
(* T threads, by blocks of numbers ("range") or by slices of the divisor   *)
(* list of one number ("per_number"), with a mutex-protected Logger that   *)
(* prints at once ("immediate") or buffers until the run ends ("deferred").*)
(***************************************************************************)
EXTENDS Integers, Sequences, FiniteSets

\* ---------------------------------------------------------------- bounds
\* Largest max_value and thread count of the runs explored without
\* recording std::cout.
MaxN == 12
MaxT == 2
\* Largest max_value and thread count of the runs whose output is recorded.
LogMaxN == 4
LogMaxT == 2
\* Largest max_value of the single-worker runs whose output is recorded.
SeqMaxN == 9
\* Largest max_value and thread count of the runs explored under fair
\* scheduling.
FairMaxN == 6
FairMaxT == 2
\* Argument ranges for block_of and is_prime_single taken alone.
BlkMaxN == 150
BlkMaxT == 20
PrimeMaxN == 100

\* PerNumber runs followed for the cancellation flag: max_value and threads.
FlagMaxN == 26
FlagMaxT == 2

\* Values of log_every: -1 = no per-divisor CHECK line, 0 = every check,
\* 2 = every second check.
LogEverySet == {-1, 0, 2}

\* ------------------------------------------------------- small utilities
Free == -2          \* owner value of an unlocked std::mutex
MainThread == -1    \* the thread running main(); also the "----" thread id

Range(s) == {s[i] : i \in DOMAIN s}

RECURSIVE SumSeq(_)
SumSeq(s) == IF s = <<>> THEN 0 ELSE Head(s) + SumSeq(Tail(s))

\* (u64)std::sqrt((long double)n)
Isqrt(n) == CHOOSE k \in 0..n : k * k <= n /\ (k + 1) * (k + 1) > n

\* trial-division oracle standing for the sieve of the test suite
IsPrimeOracle(n) == n >= 2 /\ \A d \in 2..(n - 1) : n % d # 0

\* ------------------------------------------------------ primality helpers
is_6kpm1(d) == (d % 6 = 1) \/ (d % 6 = 5)

\* The d the divisor loop of is_prime_single tests next, starting at d:
\* with use_6k the loop steps by one and skips every d that is not 6k+-1.
RECURSIVE SkipTo(_, _, _)
SkipTo(d, limit, u6k) ==
    IF d <= limit /\ u6k /\ ~is_6kpm1(d) THEN SkipTo(d + 1, limit, u6k) ELSE d

StepOf(u6k) == IF u6k THEN 1 ELSE 2

RECURSIVE DivLoop(_, _, _, _)
DivLoop(n, d0, limit, u6k) ==
    LET d == SkipTo(d0, limit, u6k) IN
    IF d > limit THEN TRUE
    ELSE IF n % d = 0 THEN FALSE
    ELSE DivLoop(n, d + StepOf(u6k), limit, u6k)

\* is_prime_single, its result only (the CHECK lines it logs are emitted by
\* the worker steps below).
is_prime_single(n, skip, u6k) ==
    IF n < 2 THEN FALSE
    ELSE IF n = 2 THEN TRUE
    ELSE IF skip /\ n % 2 = 0 THEN FALSE
    ELSE IF ~skip /\ n % 2 = 0 THEN FALSE
    ELSE DivLoop(n, 3, Isqrt(n), u6k)

\* Cand without the push_back(2) of the case !skip_even.
Cand_odd_only(n, skip, u6k) ==
    SelectSeq([i \in 1..Isqrt(n) |-> i],
              LAMBDA d : d >= 3 /\ d % 2 = 1 /\ (u6k => is_6kpm1(d)))

\* The candidate-divisor vector cand built by is_prime_parallel.
Cand(n, skip, u6k) ==
    LET odd == SelectSeq([i \in 1..Isqrt(n) |-> i],
                         LAMBDA d : d >= 3 /\ d % 2 = 1 /\ (u6k => is_6kpm1(d)))
    IN (IF skip THEN <<>> ELSE <<2>>) \o odd

\* SliceL starting one element late.
SliceL_off(len, t, T_) == (len * t) \div T_ + 1

\* Slice [L, R) of worker t over a vector of length len (0-based indices).
SliceL(len, t, T_) == (len * t) \div T_
SliceR(len, t, T_) == (len * (t + 1)) \div T_

\* block_of whose start lacks the + 1.
block_of_nostep(N_, T_, t) ==
    LET start == (N_ * t) \div T_
        end   == (N_ * (t + 1)) \div T_
    IN [lo |-> IF start < 2 THEN 2 ELSE start, hi |-> end]

\* block_of without the clamp of start to 2.
block_of_noclamp(N_, T_, t) ==
    [lo |-> (N_ * t) \div T_ + 1, hi |-> (N_ * (t + 1)) \div T_]

\* block_of with both ends one number late.
block_of_late(N_, T_, t) ==
    LET start == (N_ * t) \div T_ + 2
        end   == (N_ * (t + 1)) \div T_ + 1
    IN [lo |-> start, hi |-> IF end > N_ THEN N_ ELSE end]

\* block_of(t) of run_division_range: inclusive block [lo, hi].
block_of(N_, T_, t) ==
    LET start == (N_ * t) \div T_ + 1
        end   == (N_ * (t + 1)) \div T_
    IN [lo |-> IF start < 2 THEN 2 ELSE start, hi |-> end]

BlockSize(b) == IF b.hi >= b.lo THEN b.hi - b.lo + 1 ELSE 0

\* ------------------------------------------------------------------ state
VARIABLES
    N,            \* cfg.max_value
    T,            \* max(1, cfg.threads)
    skip_even,    \* cfg.skip_even
    use_6k,       \* cfg.use_6k
    log_every,    \* cfg.log_every
    files,        \* the preset .ini files present in the current folder
    stdin_y,      \* number of "y" answers left on std::cin
    capture,      \* whether the lines written to std::cout are recorded
    division,     \* cfg.division of the run
    printing,     \* cfg.printing of the run
    mpc,          \* position of the main thread
    rr,           \* the RunResult of the run
    wpc,          \* position of each worker thread
    wn,           \* worker's n (range) or index i into cand (per_number)
    wd,           \* worker's divisor d inside is_prime_single
    wcnt,         \* worker's check_counter / counter
    wlo,          \* worker's lo (range) or L (per_number)
    whi,          \* worker's hi (range) or R (per_number)
    local,        \* worker's local vector of primes
    pn,           \* n of the loop of run_division_per_number
    cand,         \* candidate divisors of pn
    found,        \* std::atomic<bool> found
    late,         \* per worker of a batch: divisor checks made since found was set
    prime,        \* value returned by is_prime_parallel
    m,            \* owner of Logger::m
    primes_m,     \* owner of primes_m
    buf,          \* Logger::buf
    out,          \* lines written to std::cout by the Logger of the run
    passed,       \* number of events each thread has handed to Logger::raw
    hist          \* summaries of the runs finished so far

envVars    == <<N, T, skip_even, use_6k, log_every, files, capture>>
cfgVars    == <<division, printing>>
workerVars == <<wpc, wn, wd, wcnt, wlo, whi, local>>
pnVars     == <<pn, cand, found, late, prime>>
logVars    == <<m, buf, out, passed>>
vars == <<envVars, stdin_y, cfgVars, mpc, rr, workerVars, pnVars, logVars,
          primes_m, hist>>

Workers == 0..(T - 1)
Threads == {MainThread} \cup Workers

\* PRESETS: key -> (division, printing)
PRESETS == { [division |-> "range",      printing |-> "immediate"],
             [division |-> "range",      printing |-> "deferred"],
             [division |-> "per_number", printing |-> "immediate"],
             [division |-> "per_number", printing |-> "deferred"] }

EmptyResult == [primes |-> <<>>, processed |-> 0, primes_per_thread |-> <<>>]

IdleWorkers ==
    /\ wpc   = [t \in Workers |-> "idle"]
    /\ wn    = [t \in Workers |-> 0]
    /\ wd    = [t \in Workers |-> 0]
    /\ wcnt  = [t \in Workers |-> 0]
    /\ wlo   = [t \in Workers |-> 0]
    /\ whi   = [t \in Workers |-> 0]
    /\ local = [t \in Workers |-> <<>>]

\* State of the process when main() starts, the configuration being given.
InitRest(pc0, n0) ==
    /\ division = "range"
    /\ printing = "immediate"
    /\ mpc = pc0
    /\ pn = n0
    /\ rr = EmptyResult
    /\ IdleWorkers
    /\ cand = <<>>
    /\ found = FALSE
    /\ late = [t \in Workers |-> 0]
    /\ prime = FALSE
    /\ m = Free
    /\ primes_m = Free
    /\ buf = <<>>
    /\ out = <<>>
    /\ passed = [e \in Threads |-> 0]
    /\ hist = {}

\* Runs whose output is recorded: all four presets on small settings, and
\* with a single worker on larger ones and with a second run.
InitLog ==
    /\ \/ N \in 0..LogMaxN /\ T \in 1..LogMaxT
       \/ N \in 0..SeqMaxN /\ T = 1
    /\ skip_even \in BOOLEAN
    /\ use_6k \in BOOLEAN
    /\ log_every \in LogEverySet
    /\ files = PRESETS
    /\ stdin_y = IF T = 1 THEN 1 ELSE 0
    /\ capture = TRUE
    /\ InitRest("menu", 0)

\* Runs whose output goes to a terminal that is not recorded: the two
\* immediate presets, one after the other when std::cin answers "y".
InitRun ==
    /\ N \in 0..MaxN
    /\ T \in 1..MaxT
    /\ skip_even \in BOOLEAN
    /\ use_6k \in BOOLEAN
    /\ log_every \in LogEverySet
    /\ files = {p \in PRESETS : p.printing = "immediate"}
    /\ stdin_y = 1
    /\ capture = FALSE
    /\ InitRest("menu", 0)

\* The prefix of a range run up to the spawn loop, over a wide range of
\* max_value and threads: block_of applied to every t.
InitBlocks ==
    /\ N \in 0..BlkMaxN
    /\ T \in 1..BlkMaxT
    /\ skip_even = TRUE
    /\ use_6k = FALSE
    /\ log_every = -1
    /\ files = {p \in PRESETS : p.division = "range" /\ p.printing = "immediate"}
    /\ stdin_y = 0
    /\ capture = FALSE
    /\ InitRest("menu", 0)

\* The range run with max_value=30, threads=3, use_6k=false.
InitScenario ==
    /\ N = 30
    /\ T = 3
    /\ skip_even \in BOOLEAN
    /\ use_6k = FALSE
    /\ log_every \in LogEverySet
    /\ files = {p \in PRESETS : p.division = "range" /\ p.printing = "immediate"}
    /\ stdin_y = 0
    /\ capture = FALSE
    /\ InitRest("menu", 0)

\* A call is_prime_single(n, cfg, ...) taken alone: pn holds the argument n,
\* prime receives the value returned.
InitPrime ==
    /\ N = PrimeMaxN
    /\ T = 1
    /\ skip_even \in BOOLEAN
    /\ use_6k \in BOOLEAN
    /\ log_every = -1
    /\ files = {}
    /\ stdin_y = 0
    /\ capture = FALSE
    /\ \E n \in 0..PrimeMaxN : InitRest("call", n)

\* ----------------------------------------------------------------- Logger
\* The line built by Logger::ev: thread label, tag and message; by and seq
\* identify the calling thread and the rank of the call among its calls
\* (the time stamp of the line, which never decreases along one thread).
Event(tid, tag, msg, by) ==
    [tid |-> tid, tag |-> tag, msg |-> msg, by |-> by,
     seq |-> IF capture THEN passed[by] + 1 ELSE 0]

\* raw that keeps only the last line in the buffer.
raw_buf_overwrite(s) == IF printing = "immediate" THEN buf ELSE <<s>>

\* raw that writes the line to std::cout in either print mode.
raw_out_always(s) == IF capture THEN Append(out, s) ELSE out

\* Logger::raw, the body under the lock_guard: new buf and new std::cout.
raw_buf(s) == IF printing = "immediate" THEN buf ELSE Append(buf, s)
raw_out(s) == IF printing = "immediate" /\ capture THEN Append(out, s) ELSE out

\* Logger::flush, the body under the lock_guard: what reaches std::cout.
flush_out == IF capture THEN out \o buf ELSE out

\* A step of thread by that calls Logger::ev when doLog holds: the thread
\* owns m (taken by LogLock), appends the line and releases m.
LogStep(by, doLog, e) ==
    IF doLog
    THEN /\ m = by
         /\ m' = Free
         /\ buf' = raw_buf(e)
         /\ out' = raw_out(e)
         /\ passed' = IF capture THEN [passed EXCEPT ![by] = @ + 1] ELSE passed
    ELSE /\ m # by
         /\ UNCHANGED logVars

\* should_log of is_prime_single / do_log of is_prime_parallel::worker
should_log(cnt) ==
    IF log_every = 0 THEN TRUE
    ELSE IF log_every > 0 THEN ((cnt + 1) % log_every) = 0
    ELSE FALSE
next_counter(cnt) == IF log_every > 0 THEN cnt + 1 ELSE cnt

\* NeedsLogLock with a log call inside the merge block.
NeedsLogLock_in_merge(e) ==
    IF e = MainThread
    THEN \/ mpc \in {"info", "run_start", "run_end", "pn_prime"}
         \/ mpc = "flush" /\ printing = "deferred"
    ELSE \/ wpc[e] \in {"start", "prime", "finish", "p_log", "merging"}
         \/ wpc[e] \in {"chk2", "loop"} /\ should_log(wcnt[e])
         \/ wpc[e] = "p_entry" /\ wlo[e] < whi[e] /\ log_every = -1

\* Whether the next step of thread e takes Logger::m.
NeedsLogLock(e) ==
    IF e = MainThread
    THEN \/ mpc \in {"info", "run_start", "run_end", "pn_prime"}
         \/ mpc = "flush" /\ printing = "deferred"
    ELSE \/ wpc[e] \in {"start", "prime", "finish", "p_log"}
         \/ wpc[e] \in {"chk2", "loop"} /\ should_log(wcnt[e])
         \/ wpc[e] = "p_entry" /\ wlo[e] < whi[e] /\ log_every = -1

\* std::lock_guard<std::mutex> lk(m) in Logger::raw and Logger::flush
LogLock(e) ==
    /\ NeedsLogLock(e)
    /\ m = Free
    /\ m' = e
    /\ UNCHANGED <<envVars, stdin_y, cfgVars, mpc, rr, workerVars, pnVars,
                   buf, out, passed, primes_m, hist>>

\* ------------------------------------------------------------------- main
\* main: a preset file is chosen and loaded, the Logger and the RunResult of
\* the run are constructed.
Pick(f) ==
    /\ mpc = "menu"
    /\ f \in files
    /\ division' = f.division
    /\ printing' = f.printing
    /\ rr' = EmptyResult
    /\ m' = Free
    /\ buf' = <<>>
    /\ out' = <<>>
    /\ passed' = [e \in Threads |-> 0]
    /\ mpc' = "info"
    /\ UNCHANGED <<envVars, stdin_y, workerVars, pnVars, primes_m, hist>>

\* log.info("Using config file: ...")
Info ==
    /\ mpc = "info"
    /\ LogStep(MainThread, TRUE, Event(MainThread, "INFO", <<>>, MainThread))
    /\ mpc' = "run_start"
    /\ UNCHANGED <<envVars, stdin_y, cfgVars, rr, workerVars, pnVars,
                   primes_m, hist>>

\* Entry of run_division_range / run_division_per_number up to log.run("Start")
RunStart ==
    /\ mpc = "run_start"
    /\ LogStep(MainThread, TRUE,
               Event(MainThread, "RUN", <<N, T>>, MainThread))
    /\ IF division = "per_number"
       THEN /\ mpc' = "pn_loop"
            /\ pn' = 2
            /\ rr' = rr
       ELSE /\ mpc' = "spawn"
            /\ pn' = pn
            /\ rr' = [rr EXCEPT !.primes_per_thread = [t \in 1..T |-> 0]]
    /\ UNCHANGED <<envVars, stdin_y, cfgVars, workerVars, cand, found, late, prime,
                   primes_m, hist>>

\* log.run("End") and return rr
RunEnd ==
    /\ mpc = "run_end"
    /\ LogStep(MainThread, TRUE, Event(MainThread, "RUN", <<>>, MainThread))
    /\ mpc' = "flush"
    /\ UNCHANGED <<envVars, stdin_y, cfgVars, rr, workerVars, pnVars,
                   primes_m, hist>>

\* if (pm == PrintMode::DEFERRED) log.flush();
Flush ==
    /\ mpc = "flush"
    /\ IF printing = "deferred"
       THEN /\ m = MainThread
            /\ m' = Free
            /\ out' = flush_out
            /\ buf' = <<>>
       ELSE UNCHANGED <<m, out, buf>>
    /\ mpc' = "summary"
    /\ UNCHANGED <<envVars, stdin_y, cfgVars, rr, workerVars, pnVars, passed,
                   primes_m, hist>>

\* What print_summary shows of the run, as kept for comparing runs.
SummaryOf ==
    [division |-> division, primes |-> Range(rr.primes),
     processed |-> rr.processed]

\* print_summary, then "Run another config? (y/n)" answered n or end of input
Summary ==
    /\ mpc = "summary"
    /\ hist' = hist \cup {SummaryOf}
    /\ mpc' = "exit"
    /\ UNCHANGED <<envVars, stdin_y, cfgVars, rr, workerVars, pnVars, logVars,
                   primes_m>>

\* print_summary, then "Run another config? (y/n)" answered y
Again ==
    /\ mpc = "summary"
    /\ stdin_y > 0
    /\ stdin_y' = stdin_y - 1
    /\ hist' = hist \cup {SummaryOf}
    /\ mpc' = "menu"
    /\ UNCHANGED <<envVars, cfgVars, rr, workerVars, pnVars, logVars, primes_m>>

\* ------------------------------------------------------ run_division_range
\* The spawn loop: block_of(t) for every t, one thread per block.
RangeSpawn ==
    /\ mpc = "spawn"
    /\ wlo' = [t \in Workers |-> block_of(N, T, t).lo]
    /\ whi' = [t \in Workers |-> block_of(N, T, t).hi]
    /\ wpc' = [t \in Workers |-> "start"]
    /\ wn' = [t \in Workers |-> 0]
    /\ wd' = [t \in Workers |-> 0]
    /\ wcnt' = [t \in Workers |-> 0]
    /\ local' = [t \in Workers |-> <<>>]
    /\ mpc' = "join"
    /\ UNCHANGED <<envVars, stdin_y, cfgVars, rr, pnVars, logVars, primes_m, hist>>

\* log.start(t, "range=[lo-hi]")
WStart(t) ==
    /\ wpc[t] = "start"
    /\ LogStep(t, TRUE, Event(t, "START", <<wlo[t], whi[t]>>, t))
    /\ wpc' = [wpc EXCEPT ![t] = "test"]
    /\ wn' = [wn EXCEPT ![t] = wlo[t]]
    /\ UNCHANGED <<envVars, stdin_y, cfgVars, mpc, rr, wd, wcnt, wlo, whi, local,
                   pnVars, primes_m, hist>>

\* Position after is_prime_single(n) returned false: ++n
NextNumber(t) ==
    /\ wpc' = [wpc EXCEPT ![t] = "test"]
    /\ wn' = [wn EXCEPT ![t] = @ + 1]
    /\ wd' = [wd EXCEPT ![t] = 0]

\* Position at the head of the divisor loop of is_prime_single, d = d0:
\* the loop ends (n is reported prime) or stops at the next d it checks.
EnterLoop(t, d0) ==
    LET limit == Isqrt(wn[t])
        d == SkipTo(d0, limit, use_6k)
    IN /\ wpc' = [wpc EXCEPT ![t] = IF d > limit THEN "prime" ELSE "loop"]
       /\ wd' = [wd EXCEPT ![t] = IF d > limit THEN 0 ELSE d]
       /\ wn' = wn

\* for (n = lo; n <= hi; ++n): the loop test and the entry of
\* is_prime_single(n) up to its first CHECK; with log_every < 0 nothing is
\* logged and the call is one local computation.
WTest(t) ==
    /\ wpc[t] = "test"
    /\ LET n == wn[t] IN
       IF n > whi[t]
       THEN /\ wpc' = [wpc EXCEPT ![t] = "merge"]
            /\ UNCHANGED <<wn, wd>>
       ELSE IF n = 2
       THEN /\ wpc' = [wpc EXCEPT ![t] = "prime"]
            /\ UNCHANGED <<wn, wd>>
       ELSE IF n < 2 \/ (skip_even /\ n % 2 = 0)
       THEN NextNumber(t)
       ELSE IF log_every < 0
       THEN IF is_prime_single(n, skip_even, use_6k)
            THEN /\ wpc' = [wpc EXCEPT ![t] = "prime"]
                 /\ UNCHANGED <<wn, wd>>
            ELSE NextNumber(t)
       ELSE IF ~skip_even
       THEN /\ wpc' = [wpc EXCEPT ![t] = "chk2"]
            /\ UNCHANGED <<wn, wd>>
       ELSE EnterLoop(t, 3)
    /\ UNCHANGED <<envVars, stdin_y, cfgVars, mpc, rr, wcnt, wlo, whi, local,
                   pnVars, logVars, primes_m, hist>>

\* if (!cfg.skip_even) { if (should_log(2)) log.check(tid, "d=2");
\*                       if (n % 2 == 0) return false; }
WChk2(t) ==
    /\ wpc[t] = "chk2"
    /\ LogStep(t, should_log(wcnt[t]), Event(t, "CHECK", <<2>>, t))
    /\ wcnt' = [wcnt EXCEPT ![t] = next_counter(@)]
    /\ IF wn[t] % 2 = 0 THEN NextNumber(t) ELSE EnterLoop(t, 3)
    /\ UNCHANGED <<envVars, stdin_y, cfgVars, mpc, rr, wlo, whi, local,
                   pnVars, primes_m, hist>>

\* One pass of the divisor loop: if (should_log(d)) log.check(...);
\* if (n % d == 0) return false;
WLoop(t) ==
    /\ wpc[t] = "loop"
    /\ LogStep(t, should_log(wcnt[t]), Event(t, "CHECK", <<wd[t]>>, t))
    /\ wcnt' = [wcnt EXCEPT ![t] = next_counter(@)]
    /\ IF wn[t] % wd[t] = 0
       THEN NextNumber(t)
       ELSE EnterLoop(t, wd[t] + StepOf(use_6k))
    /\ UNCHANGED <<envVars, stdin_y, cfgVars, mpc, rr, wlo, whi, local,
                   pnVars, primes_m, hist>>

\* if (prime) { log.prime(t, "n=..."); local.push_back(n); }
WPrime(t) ==
    /\ wpc[t] = "prime"
    /\ LogStep(t, TRUE, Event(t, "PRIME", <<wn[t]>>, t))
    /\ local' = [local EXCEPT ![t] = Append(@, wn[t])]
    /\ NextNumber(t)
    /\ UNCHANGED <<envVars, stdin_y, cfgVars, mpc, rr, wcnt, wlo, whi,
                   pnVars, primes_m, hist>>

\* WMergeLock that enters the merge block without waiting for primes_m.
WMergeLock_nowait(t) ==
    /\ wpc[t] = "merge"
    /\ primes_m' = t
    /\ wpc' = [wpc EXCEPT ![t] = "merging"]
    /\ UNCHANGED <<envVars, stdin_y, cfgVars, mpc, rr, wn, wd, wcnt, wlo, whi,
                   local, pnVars, logVars, hist>>

\* std::lock_guard<std::mutex> lk(primes_m)
WMergeLock(t) ==
    /\ wpc[t] = "merge"
    /\ primes_m = Free
    /\ primes_m' = t
    /\ wpc' = [wpc EXCEPT ![t] = "merging"]
    /\ UNCHANGED <<envVars, stdin_y, cfgVars, mpc, rr, wn, wd, wcnt, wlo, whi,
                   local, pnVars, logVars, hist>>

\* merge that counts one prime per worker instead of local.size().
merge_count_one(r, t) ==
    [primes |-> r.primes \o local[t],
     processed |-> r.processed + BlockSize([lo |-> wlo[t], hi |-> whi[t]]),
     primes_per_thread |-> [r.primes_per_thread EXCEPT ![t + 1] = @ + 1]]

\* merge that inserts the local primes last first.
merge_reversed(r, t) ==
    [primes |-> r.primes \o
                [i \in 1..Len(local[t]) |-> local[t][Len(local[t]) + 1 - i]],
     processed |-> r.processed + BlockSize([lo |-> wlo[t], hi |-> whi[t]]),
     primes_per_thread |->
        [r.primes_per_thread EXCEPT ![t + 1] = @ + Len(local[t])]]

\* merge that assigns the local primes instead of inserting them at the end.
merge_overwrite(r, t) ==
    [primes |-> local[t],
     processed |-> r.processed + BlockSize([lo |-> wlo[t], hi |-> whi[t]]),
     primes_per_thread |->
        [r.primes_per_thread EXCEPT ![t + 1] = @ + Len(local[t])]]

\* WMerge that leaves primes_m locked.
WMerge_norelease(t) ==
    /\ wpc[t] = "merging"
    /\ primes_m = t
    /\ rr' = [primes |-> rr.primes \o local[t],
              processed |-> rr.processed + BlockSize([lo |-> wlo[t], hi |-> whi[t]]),
              primes_per_thread |->
                 [rr.primes_per_thread EXCEPT ![t + 1] = @ + Len(local[t])]]
    /\ wpc' = [wpc EXCEPT ![t] = "finish"]
    /\ UNCHANGED <<envVars, stdin_y, cfgVars, mpc, wn, wd, wcnt, wlo, whi, local,
                   pnVars, logVars, primes_m, hist>>

\* The merge block: the RunResult after worker t has merged its outcome.
merge(r, t) ==
    [primes |-> r.primes \o local[t],
     processed |-> r.processed + BlockSize([lo |-> wlo[t], hi |-> whi[t]]),
     primes_per_thread |->
        [r.primes_per_thread EXCEPT ![t + 1] = @ + Len(local[t])]]

WMerge(t) ==
    /\ wpc[t] = "merging"
    /\ primes_m = t
    /\ rr' = merge(rr, t)
    /\ primes_m' = Free
    /\ wpc' = [wpc EXCEPT ![t] = "finish"]
    /\ UNCHANGED <<envVars, stdin_y, cfgVars, mpc, wn, wd, wcnt, wlo, whi, local,
                   pnVars, logVars, hist>>

\* log.finish(t, "range=[lo-hi]"); the thread ends and its locals die
WFinish(t) ==
    /\ wpc[t] = "finish"
    /\ LogStep(t, TRUE, Event(t, "FINISH", <<wlo[t], whi[t]>>, t))
    /\ wpc' = [wpc EXCEPT ![t] = "done"]
    /\ wn' = [wn EXCEPT ![t] = 0]
    /\ wd' = [wd EXCEPT ![t] = 0]
    /\ wcnt' = [wcnt EXCEPT ![t] = 0]
    /\ local' = [local EXCEPT ![t] = <<>>]
    /\ UNCHANGED <<envVars, stdin_y, cfgVars, mpc, rr, wlo, whi,
                   pnVars, primes_m, hist>>

\* for (auto& th : ths) th.join();
RangeJoin ==
    /\ mpc = "join"
    /\ \A t \in Workers : wpc[t] = "done"
    /\ wpc' = [t \in Workers |-> "idle"]
    /\ mpc' = "run_end"
    /\ UNCHANGED <<envVars, stdin_y, cfgVars, rr, wn, wd, wcnt, wlo, whi, local,
                   pnVars, logVars, primes_m, hist>>

\* ------------------------------------------------- run_division_per_number
\* for (n = 2; n <= N; ++n): the loop test, the skip of even n, and the entry
\* of is_prime_parallel(n) up to the spawn of its T workers.
PnLoop ==
    /\ mpc = "pn_loop"
    /\ LET c == Cand(pn, skip_even, use_6k) IN
       IF pn > N
       THEN /\ mpc' = "run_end"
            /\ UNCHANGED <<rr, pn, cand, found, late, prime, workerVars>>
       ELSE IF skip_even /\ pn > 2 /\ pn % 2 = 0
       THEN /\ rr' = [rr EXCEPT !.processed = @ + 1]
            /\ pn' = pn + 1
            /\ mpc' = "pn_loop"
            /\ UNCHANGED <<cand, found, late, prime, workerVars>>
       ELSE IF pn = 2 \/ c = <<>>
       THEN /\ prime' = TRUE
            /\ cand' = <<>>
            /\ mpc' = "pn_prime"
            /\ UNCHANGED <<rr, pn, found, late, workerVars>>
       ELSE /\ cand' = c
            /\ found' = FALSE
            /\ late' = [t \in Workers |-> 0]
            /\ wlo' = [t \in Workers |-> SliceL(Len(c), t, T)]
            /\ whi' = [t \in Workers |-> SliceR(Len(c), t, T)]
            /\ wpc' = [t \in Workers |-> "p_entry"]
            /\ mpc' = "pn_join"
            /\ UNCHANGED <<rr, pn, prime, wn, wd, wcnt, local>>
    /\ UNCHANGED <<envVars, stdin_y, cfgVars, logVars, primes_m, hist>>

\* End of a worker of is_prime_parallel: its locals die.
PDone(t) ==
    /\ wpc' = [wpc EXCEPT ![t] = "done"]
    /\ wn' = [wn EXCEPT ![t] = 0]
    /\ wcnt' = [wcnt EXCEPT ![t] = 0]

\* worker(tid, L, R): if (L >= R) return; the "range d=[a..b]" line when
\* log_every == -1; int counter = 0; i = L.
PEntry(t) ==
    /\ wpc[t] = "p_entry"
    /\ IF wlo[t] >= whi[t]
       THEN /\ PDone(t)
            /\ LogStep(t, FALSE, <<>>)
       ELSE /\ LogStep(t, log_every = -1,
                       Event(t, "CHECK", <<cand[wlo[t] + 1], cand[whi[t]], pn>>, t))
            /\ wpc' = [wpc EXCEPT ![t] = "p_cond"]
            /\ wn' = [wn EXCEPT ![t] = wlo[t]]
            /\ wcnt' = [wcnt EXCEPT ![t] = 0]
    /\ UNCHANGED <<envVars, stdin_y, cfgVars, mpc, rr, wd, wlo, whi, local,
                   pnVars, primes_m, hist>>

\* found.load(std::memory_order_relaxed) in a worker: the value stored last,
\* or the older value false while the store has not become visible to it.
found_load == IF found THEN {TRUE, FALSE} ELSE {FALSE}

\* The loop test i < R && !found.load(relaxed), and do_log of the pass.
PCond(t) ==
    /\ wpc[t] = "p_cond"
    /\ \E seen \in found_load :
         IF wn[t] < whi[t] /\ ~seen
         THEN /\ wpc' = [wpc EXCEPT ![t] =
                            IF log_every >= 0 /\ should_log(wcnt[t])
                            THEN "p_log" ELSE "p_div"]
              /\ wcnt' = [wcnt EXCEPT ![t] = next_counter(@)]
              /\ wn' = wn
         ELSE PDone(t)
    /\ UNCHANGED <<envVars, stdin_y, cfgVars, mpc, rr, wd, wlo, whi, local,
                   pnVars, logVars, primes_m, hist>>

\* log.check(tid, "d=... (n=...)")
PLog(t) ==
    /\ wpc[t] = "p_log"
    /\ LogStep(t, TRUE, Event(t, "CHECK", <<cand[wn[t] + 1], pn>>, t))
    /\ wpc' = [wpc EXCEPT ![t] = "p_div"]
    /\ UNCHANGED <<envVars, stdin_y, cfgVars, mpc, rr, wn, wd, wcnt, wlo, whi,
                   local, pnVars, primes_m, hist>>

\* PDiv without the break: the worker stores found and goes on with ++i.
PDiv_nobreak(t) ==
    /\ wpc[t] = "p_div"
    /\ found' = (found \/ pn % cand[wn[t] + 1] = 0)
    /\ wpc' = [wpc EXCEPT ![t] = "p_cond"]
    /\ wn' = [wn EXCEPT ![t] = @ + 1]
    /\ wcnt' = wcnt
    /\ late' = [late EXCEPT ![t] = IF found THEN @ + 1 ELSE @]
    /\ UNCHANGED <<envVars, stdin_y, cfgVars, mpc, rr, wd, wlo, whi, local,
                   pn, cand, prime, logVars, primes_m, hist>>

\* if (n % d == 0) { found.store(true, relaxed); break; }  else ++i
PDiv(t) ==
    /\ wpc[t] = "p_div"
    /\ IF pn % cand[wn[t] + 1] = 0
       THEN /\ found' = TRUE
            /\ PDone(t)
       ELSE /\ found' = found
            /\ wpc' = [wpc EXCEPT ![t] = "p_cond"]
            /\ wn' = [wn EXCEPT ![t] = @ + 1]
            /\ wcnt' = wcnt
    /\ late' = [late EXCEPT ![t] = IF found THEN @ + 1 ELSE @]
    /\ UNCHANGED <<envVars, stdin_y, cfgVars, mpc, rr, wd, wlo, whi, local,
                   pn, cand, prime, logVars, primes_m, hist>>

\* for (auto& th : ths) th.join(); return !found.load(relaxed);
PnJoin ==
    /\ mpc = "pn_join"
    /\ \A t \in Workers : wpc[t] = "done"
    /\ prime' = ~found
    /\ mpc' = IF ~found THEN "pn_prime" ELSE "pn_next"
    /\ wpc' = [t \in Workers |-> "idle"]
    /\ UNCHANGED <<envVars, stdin_y, cfgVars, rr, wn, wd, wcnt, wlo, whi, local,
                   pn, cand, found, late, logVars, primes_m, hist>>

\* PnPrime that puts the prime at the front of the list.
PnPrime_front ==
    /\ mpc = "pn_prime"
    /\ LogStep(MainThread, TRUE, Event(0, "PRIME", <<pn>>, MainThread))
    /\ rr' = [rr EXCEPT !.primes = <<pn>> \o @]
    /\ mpc' = "pn_next"
    /\ UNCHANGED <<envVars, stdin_y, cfgVars, workerVars, pnVars, primes_m, hist>>

\* PnPrime that logs the prime under the thread index (n - 2) mod T.
PnPrime_owner ==
    /\ mpc = "pn_prime"
    /\ LogStep(MainThread, TRUE, Event((pn - 2) % T, "PRIME", <<pn>>, MainThread))
    /\ rr' = [rr EXCEPT !.primes = Append(@, pn)]
    /\ mpc' = "pn_next"
    /\ UNCHANGED <<envVars, stdin_y, cfgVars, workerVars, pnVars, primes_m, hist>>

\* if (prime) { log.prime(0, "n=..."); rr.primes.push_back(n); }
PnPrime ==
    /\ mpc = "pn_prime"
    /\ LogStep(MainThread, TRUE, Event(0, "PRIME", <<pn>>, MainThread))
    /\ rr' = [rr EXCEPT !.primes = Append(@, pn)]
    /\ mpc' = "pn_next"
    /\ UNCHANGED <<envVars, stdin_y, cfgVars, workerVars, pnVars, primes_m, hist>>

\* rr.processed++; ++n
PnNext ==
    /\ mpc = "pn_next"
    /\ rr' = [rr EXCEPT !.processed = @ + 1]
    /\ pn' = pn + 1
    /\ mpc' = "pn_loop"
    /\ UNCHANGED <<envVars, stdin_y, cfgVars, workerVars, cand, found, late, prime,
                   logVars, primes_m, hist>>

\* ---------------------------------------------------------- specifications
Next ==
    \/ \E f \in PRESETS : Pick(f)
    \/ \E e \in Threads : LogLock(e)
    \/ Info
    \/ RunStart
    \/ RangeSpawn
    \/ \E t \in Workers : WStart(t)
    \/ \E t \in Workers : WTest(t)
    \/ \E t \in Workers : WChk2(t)
    \/ \E t \in Workers : WLoop(t)
    \/ \E t \in Workers : WPrime(t)
    \/ \E t \in Workers : WMergeLock(t)
    \/ \E t \in Workers : WMerge(t)
    \/ \E t \in Workers : WFinish(t)
    \/ RangeJoin
    \/ PnLoop
    \/ \E t \in Workers : PEntry(t)
    \/ \E t \in Workers : PCond(t)
    \/ \E t \in Workers : PLog(t)
    \/ \E t \in Workers : PDiv(t)
    \/ PnJoin
    \/ PnPrime
    \/ PnNext
    \/ RunEnd
    \/ Flush
    \/ Summary
    \/ Again

\* Runs without captured output (both divisions, run after run).
Spec == InitRun /\ [][Next]_vars

\* Runs with captured output (all four presets).
SpecLog == InitLog /\ [][Next]_vars

\* The steps of the main thread and those of worker thread t.
MainStep ==
    \/ \E f \in PRESETS : Pick(f)
    \/ LogLock(MainThread)
    \/ Info
    \/ RunStart
    \/ RangeSpawn
    \/ RangeJoin
    \/ PnLoop
    \/ PnJoin
    \/ PnPrime
    \/ PnNext
    \/ RunEnd
    \/ Flush
    \/ Summary
    \/ Again

WorkerStep(t) ==
    /\ t \in Workers
    /\ \/ LogLock(t)
       \/ WStart(t)
       \/ WTest(t)
       \/ WChk2(t)
       \/ WLoop(t)
       \/ WPrime(t)
       \/ WMergeLock(t)
       \/ WMerge(t)
       \/ WFinish(t)
       \/ PEntry(t)
       \/ PCond(t)
       \/ PLog(t)
       \/ PDiv(t)

\* Runs whose threads are all scheduled again and again (a thread that can
\* take a step does not wait for ever): up to FairMaxT workers on small
\* settings, and a single worker on larger ones and with a second run.
InitFair ==
    /\ \/ N \in 0..FairMaxN /\ T \in 1..FairMaxT
       \/ N \in 0..SeqMaxN /\ T = 1
    /\ skip_even \in BOOLEAN
    /\ use_6k \in BOOLEAN
    /\ log_every \in LogEverySet
    /\ files = {p \in PRESETS : p.printing = "immediate"}
    /\ stdin_y = IF T = 1 THEN 1 ELSE 0
    /\ capture = FALSE
    /\ InitRest("menu", 0)

SpecFair ==
    /\ InitFair
    /\ [][Next]_vars
    /\ WF_vars(MainStep)
    /\ \A t \in 0..(FairMaxT - 1) : WF_vars(WorkerStep(t))

\* The steps of a range run.
NextRange ==
    \/ \E f \in PRESETS : Pick(f)
    \/ \E e \in Threads : LogLock(e)
    \/ Info
    \/ RunStart
    \/ RangeSpawn
    \/ \E t \in Workers : WStart(t)
    \/ \E t \in Workers : WTest(t)
    \/ \E t \in Workers : WChk2(t)
    \/ \E t \in Workers : WLoop(t)
    \/ \E t \in Workers : WPrime(t)
    \/ \E t \in Workers : WMergeLock(t)
    \/ \E t \in Workers : WMerge(t)
    \/ \E t \in Workers : WFinish(t)
    \/ RangeJoin
    \/ RunEnd
    \/ Flush
    \/ Summary

\* The range runs with N=30, T=3, use_6k=false.
SpecScenario == InitScenario /\ [][NextRange]_vars

\* The steps of a range run up to the spawn of the workers.
NextBlocks ==
    \/ \E f \in PRESETS : Pick(f)
    \/ LogLock(MainThread)
    \/ Info
    \/ RunStart
    \/ RangeSpawn

SpecBlocks == InitBlocks /\ [][NextBlocks]_vars

\* PerNumber runs with immediate printing, on settings large enough for a
\* worker to own several candidate divisors of one n.
InitFlag ==
    /\ N \in 0..FlagMaxN
    /\ T \in 1..FlagMaxT
    /\ skip_even \in BOOLEAN
    /\ use_6k \in BOOLEAN
    /\ log_every \in LogEverySet
    /\ files = {p \in PRESETS : p.printing = "immediate" /\ p.division = "per_number"}
    /\ stdin_y = 0
    /\ capture = FALSE
    /\ InitRest("menu", 0)

\* The steps of a PerNumber run.
NextFlag ==
    \/ \E f \in PRESETS : Pick(f)
    \/ \E e \in Threads : LogLock(e)
    \/ Info
    \/ RunStart
    \/ PnLoop
    \/ \E t \in Workers : PEntry(t)
    \/ \E t \in Workers : PCond(t)
    \/ \E t \in Workers : PLog(t)
    \/ \E t \in Workers : PDiv(t)
    \/ PnJoin
    \/ PnPrime
    \/ PnNext
    \/ RunEnd
    \/ Flush
    \/ Summary

SpecFlag == InitFlag /\ [][NextFlag]_vars

\* bool prime = is_prime_single(n, cfg, t, log, check_counter) with
\* log_every < 0, the call taken alone.
CallIsPrimeSingle ==
    /\ mpc = "call"
    /\ prime' = is_prime_single(pn, skip_even, use_6k)
    /\ mpc' = "returned"
    /\ UNCHANGED <<envVars, stdin_y, cfgVars, rr, workerVars, pn, cand, found,
                   late, logVars, primes_m, hist>>

SpecPrime == InitPrime /\ [][CallIsPrimeSingle]_vars


\* ------------------------------------------------------------- properties
\* The run has returned its RunResult to main.
RunEnded == mpc \in {"run_end", "flush", "summary", "exit"}

\* The numbers of the block [wlo[t], whi[t]] given to worker t.
Blk(t) == wlo[t]..whi[t]

BlockSizes == [i \in 1..T |-> BlockSize([lo |-> wlo[i - 1], hi |-> whi[i - 1]])]

Ascending(s) == \A i, j \in DOMAIN s : i < j => s[i] < s[j]

\* C1: in Range mode the blocks computed by block_of for the T workers are
\* pairwise disjoint, the union of the non-empty ones is exactly {2..N}, and
\* the sizes of the non-empty ones sum to max(0, N-1).
C1_BlocksPartition ==
    (mpc = "join" /\ division = "range") =>
        /\ \A t, u \in Workers : t # u => Blk(t) \cap Blk(u) = {}
        /\ UNION {Blk(t) : t \in Workers} = 2..N
        /\ SumSeq(BlockSizes) = IF N - 1 > 0 THEN N - 1 ELSE 0

\* Blocks computed for at least three threads on the largest bound explored,
\* two of them non-empty.
C1_Witness ==
    /\ mpc = "join"
    /\ N = BlkMaxN
    /\ T >= 3
    /\ \E t, u \in Workers : t < u /\ whi[t] >= wlo[t] /\ whi[u] >= wlo[u]

\* C2: is_prime_single returns true exactly when n is prime according to
\* the oracle, for each of the four combinations of skip_even and use_6k.
C2_AgreesWithOracle ==
    mpc = "returned" => (prime <=> IsPrimeOracle(pn))

\* C3: a Range run and a PerNumber run with the same settings end with the
\* same set of primes, whatever the interleaving of the threads of each.
C3_SameSet ==
    \A a, b \in hist :
        (a.division = "range" /\ b.division = "per_number")
            => a.primes = b.primes

\* Both divisions have been run to the end on the largest bound.
C3_Witness ==
    /\ N = MaxN
    /\ T = MaxT
    /\ \E a, b \in hist :
          /\ a.division = "range" /\ b.division = "per_number"
          /\ Cardinality(a.primes) >= 3

\* C4: once the workers of is_prime_parallel(n) have joined, the flag found
\* is set iff some candidate divisor divides n, and n is reported prime iff
\* the flag is not set.
C4_FlagIffDivisor ==
    (mpc \in {"pn_prime", "pn_next"} /\ cand # <<>>) =>
        /\ found <=> (\E i \in DOMAIN cand : pn % cand[i] = 0)
        /\ prime <=> ~found

\* A batch of at least two workers has joined with the flag set on a list of
\* at least two candidate divisors.
C4_Witness ==
    /\ mpc = "pn_next"
    /\ Len(cand) >= 2
    /\ T >= 2
    /\ found
    /\ ~prime


\* The lines on std::cout followed by those still in the buffer.
AllLines == out \o buf

\* Rank of the three groups of the deferred output.
GroupRank(tag) == IF tag = "START" THEN 1 ELSE IF tag = "FINISH" THEN 2 ELSE 3
Grouped == {"START", "FINISH", "PRIME"}

\* C5: the output of a deferred run has every START line before any FINISH
\* line and every FINISH line before any PRIME line, each group sorted by
\* (thread index, time stamp).
C5_DeferredGrouped ==
    (capture /\ printing = "deferred" /\ mpc \in {"summary", "exit"}) =>
        \A i, j \in DOMAIN out :
            (i < j /\ out[i].tag \in Grouped /\ out[j].tag \in Grouped) =>
                /\ GroupRank(out[i].tag) <= GroupRank(out[j].tag)
                /\ (out[i].tag = out[j].tag) =>
                      \/ out[i].tid < out[j].tid
                      \/ out[i].tid = out[j].tid /\ out[i].seq < out[j].seq

\* C6: every event handed to the Logger is in the output exactly once, and
\* two events of one thread are in the output in the order of their calls;
\* at the end of the run nothing is left in the buffer.
C6_ExactlyOnceInOrder ==
    capture =>
        /\ \A i, j \in DOMAIN AllLines :
              (i < j /\ AllLines[i].by = AllLines[j].by)
                  => AllLines[i].seq < AllLines[j].seq
        /\ \A e \in Threads :
              {AllLines[i].seq : i \in {k \in DOMAIN AllLines : AllLines[k].by = e}}
                  = 1..passed[e]
        /\ (mpc \in {"summary", "exit"}) => (buf = <<>> /\ Len(out) >= 3)

\* A deferred run of two workers has been flushed, each worker having logged
\* at least three lines.
C6_Witness ==
    /\ capture
    /\ printing = "deferred"
    /\ mpc = "summary"
    /\ T = 2
    /\ passed[0] >= 3
    /\ passed[1] >= 3
    /\ \E i, j \in DOMAIN out : i < j /\ out[i].by = 1 /\ out[j].by = 0

AllMerged ==
    /\ division = "range"
    /\ mpc = "join"
    /\ \A t \in Workers : wpc[t] \in {"finish", "done"}

C8_RangeAscending ==
    (RunEnded /\ division = "range") => Ascending(rr.primes)

\* The worker whose block holds p.
BlockIdx(p) == CHOOSE t \in Workers : p \in Blk(t)

\* C8 amended: the primes of a finished Range run are the workers' ascending
\* lists one after the other in the order of the merges: no value twice, the
\* primes of one block next to each other and ascending, and the whole list
\* ascending when there is one worker.
C8_RangeBlockwiseAscending ==
    (RunEnded /\ division = "range") =>
        LET ps == rr.primes IN
        /\ \A i, j \in DOMAIN ps : i < j => ps[i] # ps[j]
        /\ \A i, j \in DOMAIN ps :
              (i < j /\ BlockIdx(ps[i]) = BlockIdx(ps[j])) =>
                  /\ ps[i] < ps[j]
                  /\ \A k \in i..j : BlockIdx(ps[k]) = BlockIdx(ps[i])
        /\ T = 1 => Ascending(ps)

\* A range run has ended with the primes of a later block merged before
\* those of an earlier block, the later block holding two primes.
C8_Witness ==
    /\ RunEnded
    /\ division = "range"
    /\ \E i, j \in DOMAIN rr.primes :
          /\ i < j
          /\ rr.primes[i] > rr.primes[j]
    /\ \E i, j \in DOMAIN rr.primes :
          /\ i < j
          /\ BlockIdx(rr.primes[i]) = BlockIdx(rr.primes[j])

\* C9: a run with N = 0 or N = 1 ends with no prime and processed = 0; a
\* run with N = 2 ends with the primes list <<2>>; in both modes.
C9_Boundary ==
    RunEnded =>
        /\ N \in {0, 1} => (rr.primes = <<>> /\ rr.processed = 0)
        /\ N = 2 => rr.primes = <<2>>

\* A range run of two workers with N = 2 has ended.
C9_Witness ==
    /\ RunEnded
    /\ N = 2
    /\ T = MaxT
    /\ division = "range"
    /\ rr.processed = 1

\* C10 as stated: the scenario ends with the ten primes up to 29 and
\* processed = 29, the blocks being [2-11], [12-21], [22-30] of 10, 10 and 9
\* numbers.
C10_ScenarioAsStated ==
    (RunEnded /\ division = "range" /\ N = 30 /\ T = 3 /\ skip_even /\ ~use_6k) =>
        /\ Range(rr.primes) = {2, 3, 5, 7, 11, 13, 17, 19, 23, 29}
        /\ rr.processed = 29
        /\ wlo = [t \in Workers |-> <<2, 12, 22>>[t + 1]]
        /\ whi = [t \in Workers |-> <<11, 21, 30>>[t + 1]]
        /\ BlockSizes = <<10, 10, 9>>

\* C10 amended: the scenario ends with the ten primes up to 29 and
\* processed = 29, the blocks being [2-10], [11-20], [21-30] of 9, 10 and 10
\* numbers.
C10_Scenario ==
    (RunEnded /\ division = "range" /\ N = 30 /\ T = 3 /\ skip_even /\ ~use_6k) =>
        /\ Range(rr.primes) = {2, 3, 5, 7, 11, 13, 17, 19, 23, 29}
        /\ Len(rr.primes) = 10
        /\ rr.processed = 29
        /\ wlo = [t \in Workers |-> <<2, 11, 21>>[t + 1]]
        /\ whi = [t \in Workers |-> <<10, 20, 30>>[t + 1]]
        /\ BlockSizes = <<9, 10, 10>>

\* The scenario run has ended, the last block merged first.
C10_Witness ==
    /\ mpc = "summary"
    /\ N = 30 /\ T = 3 /\ skip_even /\ ~use_6k
    /\ division = "range"
    /\ Len(rr.primes) = 10
    /\ rr.primes[1] = 23


\* C11: two runs with the same settings and the same division end with the
\* same set of primes and the same processed total, whatever the
\* interleaving of the threads in each run.
C11_SameResultTwice ==
    \A a, b \in hist :
        a.division = b.division =>
            (a.primes = b.primes /\ a.processed = b.processed)

\* The range division has been run twice with two workers on the largest
\* bound, and both runs have been summarised.
C11_Witness ==
    /\ mpc = "exit"
    /\ stdin_y = 0
    /\ N = MaxN
    /\ T = MaxT
    /\ division = "range"
    /\ \A a \in hist : a.division = "range"

\* The PRIME lines of the run, on std::cout or in the buffer.
PrimeLines == {i \in DOMAIN AllLines : AllLines[i].tag = "PRIME"}

C13_RunsTerminate ==
    /\ (mpc = "run_start") ~> (mpc = "flush" /\ \A t \in Workers : wpc[t] = "idle")
    /\ <>(mpc = "exit")
    /\ [](mpc # "exit" => ENABLED Next)

\* A range run with the largest number of workers on the largest bound has
\* ended and main has left.
C13_Witness ==
    /\ mpc = "exit"
    /\ T = FairMaxT
    /\ N = FairMaxN
    /\ division = "range"
    /\ Len(rr.primes) >= 3
    /\ hist # {}


\* C14 as stated: lo(0) = 2, hi(T-1) = N and lo(t+1) = hi(t) + 1 for every
\* t in 0..T-2, for every T >= 1 and N >= 0.
C14_BlocksChained ==
    (mpc = "join" /\ division = "range") =>
        /\ wlo[0] = 2
        /\ whi[T - 1] = N
        /\ \A t \in 0..(T - 2) : wlo[t + 1] = whi[t] + 1

\* C14 amended: lo(0) = 2, hi(T-1) = N and lo(t+1) = max(2, hi(t) + 1) for
\* every t in 0..T-2; so lo(t+1) = hi(t) + 1 wherever hi(t) >= 1, which is
\* every t when N >= T.
C14_BlocksChainedClamped ==
    (mpc = "join" /\ division = "range") =>
        /\ wlo[0] = 2
        /\ whi[T - 1] = N
        /\ \A t \in 0..(T - 2) :
              /\ wlo[t + 1] = IF whi[t] + 1 < 2 THEN 2 ELSE whi[t] + 1
              /\ whi[t] >= 1 => wlo[t + 1] = whi[t] + 1
        /\ N >= T => \A t \in 0..(T - 2) : wlo[t + 1] = whi[t] + 1

\* Blocks computed for more threads than numbers: a block that ends at 0 is
\* followed by a block clamped to start at 2, and a later block ends at 1 or
\* more.
C14_Witness ==
    /\ mpc = "join"
    /\ division = "range"
    /\ N >= 2
    /\ \E t \in 0..(T - 2) : whi[t] = 0 /\ wlo[t + 1] = 2
    /\ \E t \in 0..(T - 2) : whi[t] >= 1 /\ wlo[t + 1] = whi[t] + 1


\* The positions in AllLines of the lines logged by worker t.
LinesOf(t) == {i \in DOMAIN AllLines : AllLines[i].by = t}

\* C15: a Range worker emits its START line before any of its CHECK and
\* PRIME lines, its FINISH line after all of them, and merges its outcome
\* into the shared result only after it has emitted FINISH.
C15_WorkerOrder ==
    (capture /\ division = "range" /\ mpc = "join") =>
        \A t \in Workers :
            /\ \A i \in LinesOf(t) :
                  /\ AllLines[i].tag = "START" <=> (\A j \in LinesOf(t) : i <= j)
                  /\ AllLines[i].tag = "FINISH" =>
                        (\A j \in LinesOf(t) : j <= i) /\ wpc[t] = "done"
            /\ wpc[t] \in {"merging", "finish", "done"} =>
                  \E i \in LinesOf(t) : AllLines[i].tag = "FINISH"


\* The numbers of the PRIME lines logged by worker t.
PrimesLogged(t) ==
    {AllLines[i].msg[1] : i \in {j \in LinesOf(t) : AllLines[j].tag = "PRIME"}}

\* C15 amended: a Range worker emits its START line before any of its CHECK
\* and PRIME lines and its FINISH line after all of them, and it merges its
\* outcome into the shared result before it emits FINISH: no FINISH line of
\* a worker exists while it waits for or holds the merge lock, and once the
\* line exists the primes the worker logged are in the shared result.
C15_WorkerOrderMergeFirst ==
    (capture /\ division = "range" /\ mpc = "join") =>
        \A t \in Workers :
            /\ \A i \in LinesOf(t) :
                  /\ AllLines[i].tag = "START" <=> (\A j \in LinesOf(t) : i <= j)
                  /\ AllLines[i].tag = "FINISH" =>
                        /\ \A j \in LinesOf(t) : j <= i
                        /\ wpc[t] = "done"
                        /\ PrimesLogged(t) \subseteq Range(rr.primes)
            /\ wpc[t] \in {"test", "chk2", "loop", "prime", "merge", "merging", "finish"}
                  => /\ \A i \in LinesOf(t) : AllLines[i].tag # "FINISH"
                     /\ \E i \in LinesOf(t) : AllLines[i].tag = "START"
            /\ wpc[t] \in {"merge", "merging"} =>
                  PrimesLogged(t) \cap Range(rr.primes) = {}
            /\ wpc[t] = "done" => \E i \in LinesOf(t) : AllLines[i].tag = "FINISH"

\* Of two workers, one has merged its primes and not yet logged FINISH while
\* the other has logged FINISH after PRIME lines.
C15_Witness ==
    /\ capture
    /\ division = "range"
    /\ mpc = "join"
    /\ T = 2
    /\ \E t, u \in Workers :
          /\ wpc[t] = "finish"
          /\ PrimesLogged(t) # {}
          /\ wpc[u] = "done"
          /\ PrimesLogged(u) # {}


\* The primes of the blocks, as is_prime_single reports them.
BlockPrimes(t) == {n \in Blk(t) : is_prime_single(n, skip_even, use_6k)}

\* C16: in Range mode the shared result changes only in a step of the worker
\* that holds primes_m, at most one worker is inside the merge block, each
\* worker merges once, and after the join the primes list holds the primes
\* of every block exactly once and processed is the sum of the block sizes.
C16_MergeUnderLock ==
    /\ [](division = "range" /\ mpc = "join" =>
            /\ Cardinality({t \in Workers : wpc[t] = "merging"}) <= 1
            /\ \A t \in Workers : wpc[t] = "merging" <=> primes_m = t
            /\ \A t \in Workers :
                  rr.primes_per_thread[t + 1] =
                      IF wpc[t] \in {"finish", "done"}
                      THEN Cardinality(BlockPrimes(t)) ELSE 0)
    /\ [](division = "range" /\ RunEnded =>
            /\ primes_m = Free
            /\ Len(rr.primes) = Cardinality(Range(rr.primes))
            /\ Range(rr.primes) = UNION {BlockPrimes(t) : t \in Workers}
            /\ rr.processed = SumSeq(BlockSizes))
    /\ [][(division = "range" /\ mpc = "join" /\ rr' # rr) =>
            /\ primes_m \in Workers
            /\ wpc[primes_m] = "merging"
            /\ wpc'[primes_m] = "finish"
            /\ primes_m' = Free]_vars

\* Worker 1 is inside the merge block with primes of its own while worker 0,
\* which has primes too, waits for primes_m.
C16_Witness ==
    /\ division = "range"
    /\ mpc = "join"
    /\ T >= 2
    /\ primes_m = 1
    /\ wpc[0] = "merge"
    /\ local[0] # <<>>
    /\ local[1] # <<>>


\* C17: in PerNumber mode the candidates are handled one at a time in
\* increasing order: workers exist only between the spawn and the join of
\* the batch of the current candidate n, n moves on by one and only when no
\* worker is left, and the primes list is strictly ascending (and below the
\* candidates still to come) at every point of the run.
C17_OneCandidateAtATime ==
    /\ [](division = "per_number" /\ ~(mpc \in {"menu", "info", "run_start"}) =>
            /\ Ascending(rr.primes)
            /\ \A i \in DOMAIN rr.primes :
                  rr.primes[i] < pn \/ (rr.primes[i] = pn /\ mpc = "pn_next")
            /\ (\E t \in Workers : wpc[t] # "idle") =>
                  /\ mpc = "pn_join"
                  /\ pn <= N
                  /\ cand = Cand(pn, skip_even, use_6k)
                  /\ \A t \in Workers : wpc[t] # "idle")
    /\ [][(division = "per_number" /\ mpc \in {"pn_loop", "pn_next"} /\ pn' # pn) =>
            /\ pn' = pn + 1
            /\ \A t \in Workers : wpc[t] = "idle" /\ wpc'[t] = "idle"]_vars
    /\ [][(division = "per_number" /\ mpc = "pn_loop" /\ mpc' = "pn_join") =>
            /\ pn' = pn
            /\ \A t \in Workers : wpc[t] = "idle" /\ wpc'[t] = "p_entry"]_vars

\* The batch of a later candidate is at work, one worker dividing, with
\* three primes already in the list.
C17_Witness ==
    /\ division = "per_number"
    /\ mpc = "pn_join"
    /\ T >= 2
    /\ Len(rr.primes) >= 3
    /\ \E t \in Workers : wpc[t] = "p_div"
    /\ \E t \in Workers : wpc[t] = "done"


\* C18: in Deferred mode nothing reaches the output stream before the flush
\* at the end of the run: every event emitted until then is in the buffer
\* only, once; the flush writes the buffer as it is and leaves it empty.
C18_DeferredBuffered ==
    /\ [](capture /\ printing = "deferred" =>
            /\ mpc \in {"info", "run_start", "spawn", "join", "pn_loop", "pn_join",
                        "pn_prime", "pn_next", "run_end", "flush"} =>
                  /\ out = <<>>
                  /\ Cardinality(Range(buf)) = Len(buf)
                  /\ \A e \in Threads :
                        Cardinality({i \in DOMAIN buf : buf[i].by = e}) = passed[e]
            /\ (\E t \in Workers : wpc[t] # "idle") => out = <<>>
            /\ mpc \in {"summary", "exit"} =>
                  /\ buf = <<>>
                  /\ Cardinality(Range(out)) = Len(out)
                  /\ \A e \in Threads :
                        Cardinality({i \in DOMAIN out : out[i].by = e}) = passed[e])
    /\ [][(capture /\ printing = "deferred" /\ mpc = "flush" /\ mpc' # mpc) =>
            /\ out = <<>>
            /\ out' = buf
            /\ buf' = <<>>]_vars

\* A deferred run with both workers at work: five lines or more are in the
\* buffer, none in the output.
C18_Witness ==
    /\ capture
    /\ printing = "deferred"
    /\ mpc \in {"join", "pn_join"}
    /\ T = 2
    /\ \A t \in Workers : wpc[t] \notin {"idle", "done"}
    /\ Len(buf) >= 5
    /\ out = <<>>


\* C19: no thread holds Logger::m and primes_m at once: the holder of
\* primes_m is a worker inside the merge block, which takes no log lock
\* there; the holder of Logger::m neither holds nor waits for primes_m; and
\* while the workers of a Range run are at work, a step that takes or
\* releases Logger::m changes neither the result record nor primes_m.
C19_LocksNeverNested ==
    /\ [](/\ \A e \in Threads : ~(m = e /\ primes_m = e)
          /\ primes_m \in {Free} \cup Workers
          /\ \A t \in Workers :
                /\ primes_m = t => (wpc[t] = "merging" /\ ~NeedsLogLock(t))
                /\ m = t => (wpc[t] \notin {"merge", "merging"} /\ NeedsLogLock(t))
          /\ m = MainThread => NeedsLogLock(MainThread))
    /\ [][(division = "range" /\ mpc = "join" /\ m' # m) =>
            (rr' = rr /\ primes_m' = primes_m)]_vars
    /\ [][(primes_m' # primes_m) => m' = m]_vars

\* Worker 0 is inside the merge block while worker 1 holds Logger::m.
C19_Witness ==
    /\ division = "range"
    /\ mpc = "join"
    /\ primes_m = 0
    /\ m = 1
    /\ wpc[0] = "merging"


\* C20 as stated: once found is set for candidate n, every worker of the
\* batch makes at most one further divisor check, and a worker that has set
\* found makes none.
C20_AtMostOneMore ==
    /\ [](division = "per_number" => \A t \in Workers : late[t] <= 1)
    /\ [][\A t \in Workers :
            (wpc[t] = "p_div" /\ pn % cand[wn[t] + 1] = 0 /\ wpc'[t] # wpc[t]) =>
                (found' /\ wpc'[t] = "done")]_vars
    /\ [][\A t \in Workers : wpc[t] = "done" => wpc'[t] \in {"done", "idle"}]_vars

\* C20: a worker that has set found makes no further check and stays out of
\* its loop until the join; another worker leaves its loop at the first loop
\* test whose relaxed load returns true, and until then goes on checking: the
\* checks it makes after found was set are bounded by the divisors of its own
\* slice it has gone through, not by one; a batch of one worker makes none.
C20_BoundedBySlice ==
    /\ [](division = "per_number" =>
            \A t \in Workers :
                /\ late[t] <= whi[t] - wlo[t]
                /\ wpc[t] \in {"p_cond", "p_log"} => late[t] <= wn[t] - wlo[t]
                /\ wpc[t] = "p_div" => late[t] <= wn[t] - wlo[t]
                /\ late[t] > 0 => found
                /\ T = 1 => late[t] = 0)
    /\ [][\A t \in Workers :
            (wpc[t] = "p_div" /\ pn % cand[wn[t] + 1] = 0 /\ wpc'[t] # wpc[t]) =>
                (found' /\ wpc'[t] = "done")]_vars
    /\ [][\A t \in Workers : wpc[t] = "done" => wpc'[t] \in {"done", "idle"}]_vars

\* Worker 0 has set found for n and is out of its loop; worker 1 has since
\* made two divisor checks and is still in its loop.
C20_Witness ==
    /\ division = "per_number"
    /\ mpc = "pn_join"
    /\ T = 2
    /\ found
    /\ wpc[0] = "done"
    /\ late[0] = 0
    /\ late[1] = 2

====
